---- MODULE Spec2Model ----
(***************************************************************************)
(* Long-screenshot engine of screenshot-mcp                                *)
(* (src/src/utils/long-screenshot.ts): the capture loop, the fingerprint,  *)
(* the overlap resolver (findBestOverlap) and the stitcher (stitchImages). *)
(*                                                                         *)
(* A frame (ImageBuffer) is a record [width, height, data]; data is the    *)
(* RGBA byte buffer, a sequence whose element k+1 is the byte at Buffer    *)
(* index k.                                                                *)
(***************************************************************************)
EXTENDS Integers, Sequences, FiniteSets, TLC

VARIABLES
  pc,             \* position of the running function
  maxScrolls,     \* options.maxScrolls ?? 20
  overlapPixels,  \* options.overlapPixels ?? 50 (the overlap hint)
  screenshots,    \* the retained frames (the Frame Sequence)
  previousHash,   \* fingerprint of the previous capture
  unchangedCount, \* the unchanged streak
  i,              \* loop counter of captureLongScreenshot
  capture,        \* the frame captured in the current iteration
  result,         \* what the running function returned or threw
  platform,       \* process.platform
  scene,          \* the target window: its document, size and scroll position
  tops,           \* the document row at the top of each retained frame
  log,            \* the operations performed so far, in order
  params,         \* the arguments of the tool call
  scrollDelay,    \* options.scrollDelay ?? 500
  server,         \* the stdin handler of the server and its requests
  heap,           \* the byte that memory not yet written to holds
  files,          \* the file system: what each path holds
  instance,       \* PlatformFactory.instance
  calls           \* the async calls in flight, each with its position

vars == <<pc, maxScrolls, overlapPixels, screenshots, previousHash,
          unchangedCount, i, capture, result, platform, scene, tops, log,
          params, scrollDelay, server, heap, files, instance, calls>>

---------------------------------------------------------------------------
(* Helpers *)

\* F(v), with v computed once whatever the number of times F uses it: a
\* const of the source.
Once(v, F(_)) == CHOOSE r \in {F(x) : x \in {v}} : TRUE

Min(a, b) == IF a < b THEN a ELSE b

Max(a, b) == IF a > b THEN a ELSE b

\* Math.sqrt, by bisection of lo..hi.  The sums of squares the model's
\* palette produces are perfect squares, for which it is exact.
RECURSIVE SqrtIn(_, _, _)
SqrtIn(n, lo, hi) ==
  IF lo >= hi THEN lo
  ELSE Once((lo + hi + 1) \div 2,
            LAMBDA mid : IF mid * mid <= n THEN SqrtIn(n, mid, hi)
                         ELSE SqrtIn(n, lo, mid - 1))

Sqrt(n) == SqrtIn(n, 0, 442)

\* What reading a typed array at a position that is no element yields.
undefined == -1

\* Row positions are kept in sixths of a row: maxOverlap / 3 and height / 2
\* are floating-point divisions in the source, and a sixth represents both
\* exactly.
Q == 6

\* The scan step of the overlap search, in rows.
step == 5

---------------------------------------------------------------------------
(* Frames *)

\* The colour of level k: R = k, G = 2k, B = 2k, A = 255.  The Euclidean
\* RGB distance between levels j and k is 3 * |j - k|.
PixelByte(k, c) == IF c = 0 THEN k ELSE IF c = 3 THEN 255 ELSE 2 * k

\* A document is a rule giving the level of row r, column x.
Level(kind, r, x) ==
  CASE kind = "distinct" -> (r + x) % 97
    [] kind = "uniform"  -> 0
    [] kind = "period5"  -> r % 5
    [] OTHER             -> (r * r + x) % 7

\* The frame showing rows top .. top+height-1 of a document.
Window(kind, top, width, height) ==
  [ width  |-> width,
    height |-> height,
    data   |-> [ n \in 1..(width * height * 4) |->
                   LET idx == n - 1
                       px  == idx \div 4
                   IN  PixelByte(Level(kind, top + (px \div width), px % width),
                                 idx % 4) ] ]

\* image.data[idx] for an index given in sixths.
ReadQ(image, idxQ) ==
  IF idxQ % Q = 0 /\ ((idxQ \div Q) + 1) \in DOMAIN image.data
  THEN image.data[(idxQ \div Q) + 1]
  ELSE undefined

---------------------------------------------------------------------------
(* findBestOverlap: the Overlap Resolver.  Overlaps are in sixths of a row *)

\* const minOverlap = Math.max(20, maxOverlap / 3)
minOverlap(maxOverlap) == Max(20 * Q, (Q \div 3) * maxOverlap)

\* const maxSearchOverlap =
\*   Math.min(maxOverlap * 3, Math.min(img1.height, img2.height) / 2)
maxSearchOverlap(img1, img2, maxOverlap) ==
  Min(maxOverlap * 3 * Q, (Q \div 2) * Min(img1.height, img2.height))

\* const startY = Math.floor(overlap * 0.2)
startY(overlap) == overlap \div (5 * Q)

\* const endY = Math.floor(overlap * 0.8)
endY(overlap) == (4 * overlap) \div (5 * Q)

\* const idx1 = (y1 * width + x) * 4, with y1 = img1.height - overlap + y
idx1(img1, overlap, y, x) ==
  (((Q * img1.height - overlap + Q * y) * img1.width) + Q * x) * 4

\* const idx2 = (y2 * width + x) * 4, with y2 = y and width = img1.width
idx2(img1, y, x) == ((Q * y * img1.width) + Q * x) * 4

\* The six reads of one sample: img1.data[idx1 + c], img2.data[idx2 + c].
Reads1(img1, overlap, y, x) ==
  [c \in 0..2 |-> ReadQ(img1, idx1(img1, overlap, y, x) + Q * c)]

Reads2(img1, img2, y, x) ==
  [c \in 0..2 |-> ReadQ(img2, idx2(img1, y, x) + Q * c)]

\* What arithmetic on undefined yields, and every sum it enters.
NaN == -1

\* Math.sqrt(dr * dr + dg * dg + db * db); NaN when a read is no byte.
Distance(img1, img2, overlap, y, x) ==
  Once(Reads1(img1, overlap, y, x), LAMBDA a :
  Once(Reads2(img1, img2, y, x), LAMBDA b :
    LET dr == a[0] - b[0]
        dg == a[1] - b[1]
        db == a[2] - b[2]
    IN  IF \E c \in 0..2 : a[c] = undefined \/ b[c] = undefined
        THEN NaN
        ELSE Sqrt(dr * dr + dg * dg + db * db)))

\* score += ...
Plus(s, t) == IF s = NaN \/ t = NaN THEN NaN ELSE s + t

\* for (let x = 0; x < width; x += 5)
SampleColumns(img1) == {x \in 0..(img1.width - 1) : x % 5 = 0}

\* for (let y = startY; y < endY; y++)
SampleRows(overlap) == startY(overlap)..(endY(overlap) - 1)

\* score += Math.sqrt(...) over the columns x = 5 * lo .. 5 * hi of row y,
\* summed by halves.
RECURSIVE SumColumns(_, _, _, _, _, _)
SumColumns(img1, img2, overlap, y, lo, hi) ==
  IF lo > hi THEN 0
  ELSE IF lo = hi THEN Distance(img1, img2, overlap, y, 5 * lo)
  ELSE Once((lo + hi) \div 2, LAMBDA mid :
       Once(SumColumns(img1, img2, overlap, y, lo, mid), LAMBDA s :
       Once(SumColumns(img1, img2, overlap, y, mid + 1, hi), LAMBDA t :
         Plus(s, t))))

\* The same over the rows lo .. hi.
RECURSIVE SumRows(_, _, _, _, _)
SumRows(img1, img2, overlap, lo, hi) ==
  IF lo > hi THEN 0
  ELSE IF lo = hi
  THEN SumColumns(img1, img2, overlap, lo, 0, (img1.width - 1) \div 5)
  ELSE Once((lo + hi) \div 2, LAMBDA mid :
       Once(SumRows(img1, img2, overlap, lo, mid), LAMBDA s :
       Once(SumRows(img1, img2, overlap, mid + 1, hi), LAMBDA t :
         Plus(s, t))))

\* The candidate's score before averaging (the sum of the distances, or
\* NaN) and its number of samples.
Score(img1, img2, overlap) ==
  [ sum     |-> SumRows(img1, img2, overlap, startY(overlap),
                        endY(overlap) - 1),
    samples |-> Cardinality(SampleRows(overlap))
                * Cardinality(SampleColumns(img1)) ]

\* let bestScore = Infinity
Infinity == [sum |-> 1, samples |-> 0]

ScoreLessOrEqual(s, best) ==
  /\ s.sum # NaN
  /\ \/ best.samples = 0
     \/ s.sum * best.samples <= best.sum * s.samples

\* score / samples < bestScore, on the averages; false when score is NaN.
ScoreLess(s, best) ==
  /\ s.sum # NaN
  /\ \/ best.samples = 0
     \/ s.sum * best.samples < best.sum * s.samples

\* One pass of the loop body for candidate overlap, from the best so far.
Consider(img1, img2, overlap, best) ==
  IF overlap > Q * img1.height \/ overlap > Q * img2.height
  THEN best
  ELSE Once(Score(img1, img2, overlap), LAMBDA s :
         IF s.samples > 0 /\ ScoreLess(s, best.bestScore)
         THEN [bestOverlap |-> overlap, bestScore |-> s]
         ELSE best)

\* The number of passes of
\* for (let overlap = minOverlap; overlap <= maxSearchOverlap; overlap += step)
passes(img1, img2, maxOverlap) ==
  IF maxSearchOverlap(img1, img2, maxOverlap) < minOverlap(maxOverlap) THEN 0
  ELSE ((maxSearchOverlap(img1, img2, maxOverlap) - minOverlap(maxOverlap))
        \div (Q * step)) + 1

\* The passes number lo .. hi of the loop, in ascending order, from the
\* best so far: the first half, then the second half from its outcome.
RECURSIVE Search(_, _, _, _, _, _)
Search(img1, img2, maxOverlap, lo, hi, best) ==
  IF lo > hi THEN best
  ELSE IF lo = hi
  THEN Consider(img1, img2, minOverlap(maxOverlap) + lo * Q * step, best)
  ELSE Once((lo + hi) \div 2, LAMBDA mid :
       Once(Search(img1, img2, maxOverlap, lo, mid, best), LAMBDA first :
         Search(img1, img2, maxOverlap, mid + 1, hi, first)))

\* The loop's final bestOverlap (in sixths) and bestScore.
Resolve(img1, img2, maxOverlap) ==
  Search(img1, img2, maxOverlap, 0, passes(img1, img2, maxOverlap) - 1,
         [bestOverlap |-> Q * maxOverlap, bestScore |-> Infinity])

\* return bestOverlap, in rows.  A fractional candidate never scores below
\* NaN for the widths of the model, so the value is a whole number of rows.
Returned(best) == best.bestOverlap \div Q

findBestOverlap(img1, img2, maxOverlap) ==
  Returned(Resolve(img1, img2, maxOverlap))

\* The candidates the loop visits, and those the continue does not skip.
Candidates(img1, img2, maxOverlap) ==
  {o \in minOverlap(maxOverlap)..maxSearchOverlap(img1, img2, maxOverlap) :
     (o - minOverlap(maxOverlap)) % (Q * step) = 0}

Scored(img1, img2, maxOverlap) ==
  {o \in Candidates(img1, img2, maxOverlap) :
     o <= Q * img1.height /\ o <= Q * img2.height}

---------------------------------------------------------------------------
(* Buffer operations of the runtime, as stitchImages uses them *)

\* A thrown error, as a value.
Throws(name) == [status |-> "throws", error |-> name]

\* Buffer.allocUnsafe(size): the memory is handed out as it was found.
BufferAllocUnsafe(size) ==
  IF size < 0 THEN Throws("RangeError")
  ELSE [status |-> "ok", data |-> [n \in 1..size |-> heap % 256]]

\* Buffer.alloc(size): zero-filled; a negative size is refused.
BufferAlloc(size) ==
  IF size < 0 THEN Throws("RangeError")
  ELSE [status |-> "ok", data |-> [n \in 1..size |-> 0]]

\* source.copy(target, targetStart, sourceStart, sourceEnd): an offset out
\* of range is refused; the copy is cut to what the target and the source
\* hold; nothing is copied when sourceEnd <= sourceStart.
BufferCopy(source, target, targetStart, sourceStart, sourceEnd) ==
  IF \/ targetStart < 0
     \/ sourceStart < 0 \/ sourceStart > Len(source)
     \/ sourceEnd < 0
  THEN Throws("RangeError")
  ELSE IF targetStart >= Len(target) \/ sourceStart >= sourceEnd
  THEN [status |-> "ok", data |-> target]
  ELSE LET nb == Min(Min(sourceEnd - sourceStart, Len(target) - targetStart),
                     Len(source) - sourceStart)
       IN  [ status |-> "ok",
             data   |-> [n \in 1..Len(target) |->
                           IF n - 1 >= targetStart /\ n - 1 < targetStart + nb
                           THEN source[sourceStart + (n - targetStart)]
                           ELSE target[n]] ]

---------------------------------------------------------------------------
(* stitchImages: the Stitcher *)

\* for (let i = 0; i < images.length - 1; i++)
\*   overlaps.push(findBestOverlap(images[i], images[i + 1], overlapPixels))
RECURSIVE OverlapsUpTo(_, _, _)
OverlapsUpTo(images, hint, k) ==
  IF k = 0 THEN <<>>
  ELSE Append(OverlapsUpTo(images, hint, k - 1),
              findBestOverlap(images[k], images[k + 1], hint))

Overlaps(images, hint) == OverlapsUpTo(images, hint, Len(images) - 1)

\* let totalHeight = images[0].height;
\* for (...) totalHeight += images[i + 1].height - overlaps[i]
RECURSIVE totalHeightFrom(_, _, _)
totalHeightFrom(images, overlaps, k) ==
  IF k = 0 THEN images[1].height
  ELSE totalHeightFrom(images, overlaps, k - 1)
       + images[k + 1].height - overlaps[k]

totalHeightKeepingFirstBand(images, overlaps) ==
  totalHeightFrom(images, overlaps, Len(overlaps))
  + (IF Len(overlaps) > 0 THEN overlaps[1] ELSE 0)

totalHeight(images, overlaps) ==
  totalHeightFrom(images, overlaps, Len(overlaps))

\* The row the frame after overlaps[k] is copied to: currentY -= overlap.
destRow(currentY, overlap) == currentY - overlap

\* currentY after the copy: currentY += img.height - overlap.
nextY(currentY, img, overlap) == currentY + img.height - overlap

\* One pass of the copy loop for frame k+1, from the loop state
\* st = [status, data, currentY, copies].
CopyFrame(images, overlaps, k, st) ==
  LET img         == images[k + 1]
      overlap     == overlaps[k]
      width       == images[1].width
      currentY    == destRow(st.currentY, overlap)
      sourceStart == overlap * width * 4
      destStart   == currentY * width * 4
      copyLength  == (img.height - overlap) * width * 4
  IN  Once(BufferCopy(img.data, st.data, destStart, sourceStart,
                      sourceStart + copyLength),
           LAMBDA copied :
             IF copied.status = "throws"
             THEN [st EXCEPT !.status = "throws"]
             ELSE [ status   |-> "ok",
                    data     |-> copied.data,
                    currentY |-> nextY(currentY, img, overlap),
                    copies   |-> Append(st.copies,
                                        [ destStart   |-> destStart,
                                          sourceStart |-> sourceStart,
                                          copyLength  |-> copyLength ]) ])

\* const outputData = Buffer.alloc(width * totalHeight * 4);
\* images[0].data.copy(outputData, 0); let currentY = images[0].height
CopyFirst(images, overlaps) ==
  Once(BufferAlloc(images[1].width * totalHeight(images, overlaps) * 4),
       LAMBDA out :
         IF out.status = "throws"
         THEN [status |-> "throws", data |-> <<>>, currentY |-> 0,
               copies |-> <<>>]
         ELSE [status |-> "ok",
               data |-> BufferCopy(images[1].data, out.data, 0, 0,
                                   Len(images[1].data)).data,
               currentY |-> images[1].height, copies |-> <<>>])

\* The loop state after the copies of frames 2 .. k+1; a throw ends it.
RECURSIVE CopyLoop(_, _, _)
CopyLoop(images, overlaps, k) ==
  IF k = 0 THEN CopyFirst(images, overlaps)
  ELSE Once(CopyLoop(images, overlaps, k - 1),
            LAMBDA st : IF st.status = "throws" THEN st
                        ELSE CopyFrame(images, overlaps, k, st))

\* The rest of stitchImages once the overlaps are resolved.
StitchWith(images, overlaps) ==
  Once(CopyLoop(images, overlaps, Len(overlaps)),
       LAMBDA st :
         IF st.status = "throws" THEN Throws("RangeError")
         ELSE [ status   |-> "ok",
                image    |-> [ width  |-> images[1].width,
                               height |-> totalHeight(images, overlaps),
                               data   |-> st.data ],
                overlaps |-> overlaps,
                currentY |-> st.currentY,
                copies   |-> st.copies ])

\* stitchImages(images, overlapPixels): the returned ImageBuffer, with the
\* overlaps, the final currentY and the copies made, or the error thrown.
stitchImages(images, hint) ==
  IF Len(images) = 0 THEN Throws("CAPTURE_FAILED")
  ELSE IF Len(images) = 1
  THEN [status |-> "ok", image |-> images[1], overlaps |-> <<>>,
        currentY |-> images[1].height, copies |-> <<>>]
  ELSE Once(Overlaps(images, hint),
            LAMBDA overlaps : StitchWith(images, overlaps))

---------------------------------------------------------------------------
(* hashImage: the fingerprint *)

\* const samples = 100
samples == 100

HexDigits ==
  <<"0", "1", "2", "3", "4", "5", "6", "7", "8", "9",
    "a", "b", "c", "d", "e", "f">>

\* byte.toString(16)
ToString16(byte) ==
  IF byte < 16 THEN HexDigits[byte + 1]
  ELSE HexDigits[(byte \div 16) + 1] \o HexDigits[(byte % 16) + 1]

\* str.padStart(2, '0')
PadStart2(str) == IF Len(str) < 2 THEN "0" \o str ELSE str

\* const step = Math.floor(image.data.length / samples)
hashStep(image) == Len(image.data) \div samples

\* for (let i = 0; i < image.data.length; i += step) hash += ...: the
\* hex of the bytes at i = lo * step .. hi * step, concatenated by halves.
RECURSIVE hashRange(_, _, _)
hashRange(image, lo, hi) ==
  IF lo > hi THEN ""
  ELSE IF lo = hi
  THEN PadStart2(ToString16(image.data[lo * hashStep(image) + 1]))
  ELSE LET mid == (lo + hi) \div 2
       IN  hashRange(image, lo, mid) \o hashRange(image, mid + 1, hi)

\* The loop of hashImage never ends when step is 0 and the buffer is not
\* empty: i stays 0.
NeverReturns == "never returns"

\* hashImage, were it to sample from offset 1 instead of offset 0.
hashImageFromOne(image) ==
  IF hashStep(image) = 0 /\ Len(image.data) > 0 THEN NeverReturns
  ELSE IF Len(image.data) = 0 THEN ""
  ELSE hashRange([image EXCEPT !.data = Tail(@) \o <<0>>], 0,
                 (Len(image.data) - 1) \div hashStep(image))

hashImage(image) ==
  IF hashStep(image) = 0 /\ Len(image.data) > 0 THEN NeverReturns
  ELSE IF Len(image.data) = 0 THEN ""
  ELSE hashRange(image, 0, (Len(image.data) - 1) \div hashStep(image))

---------------------------------------------------------------------------
(* Bounds and input sets *)

\* The largest maxScrolls option of a session.
MaxScrollsBound == 4

\* The longest frame list handed to stitchImages directly.
MaxFrames == 3

Platforms == {"win32", "darwin", "linux"}

\* overlapPixels of a session, and of a direct call.
SessionHints == {5, 50}

Hints == {5, 50, 63, 100}

\* Window heights of a session (width 1), and frame heights and widths of
\* a direct call.  No width is a multiple of 3.
SessionHeights == {1, 30, 50}

Heights == {30, 40, 70}

Widths == {1, 7}

Kinds == {"distinct", "uniform", "period5"}

\* The rows two adjacent frames of a direct call share.
TrueOverlaps == {20, 25}

NoFrame == [width |-> 0, height |-> 0, data |-> <<>>]

NoResult == [status |-> "none"]

\* No tool call, and no server, in a run that starts inside the engine.
NoParams == [tool |-> "none"]

NoServer == [handlers |-> <<>>]

\* A path that holds no file (fs.access rejects with ENOENT).
ENOENT == "ENOENT"

\* The paths the tools write to.
Paths == {"a.png", "b.png"}

NoFiles == [p \in Paths |-> ENOENT]

\* private static instance: PlatformScreenshot | null = null
null == 0

\* An operation of the session, as logged: a capture with the scroll
\* position it shows, a scroll with the key presses asked for, a wait, or a
\* fingerprint with its value.
Event(op, ok, n, fp) == [op |-> op, ok |-> ok, n |-> n, fp |-> fp]

---------------------------------------------------------------------------
(* captureLongScreenshot: the session *)

\* platform.captureWindow(windowHandle, includeFrame) when it succeeds.
captureWindow == Window(scene.kind, scene.pos, scene.width, scene.height)

Init ==
  /\ pc = "start"
  /\ maxScrolls \in 0..MaxScrollsBound
  /\ overlapPixels \in SessionHints
  /\ platform \in Platforms
  /\ \E h \in SessionHeights :
       scene = [kind |-> "distinct", width |-> 1, height |-> h,
                page |-> h \div 2, pos |-> 0]
  /\ screenshots = <<>>
  /\ tops = <<>>
  /\ previousHash = ""
  /\ unchangedCount = 0
  /\ i = 0
  /\ capture = NoFrame
  /\ result = NoResult
  /\ log = <<>>
  /\ params = NoParams
  /\ scrollDelay = 500
  /\ server = NoServer
  /\ heap = 1
  /\ files = NoFiles
  /\ instance = null
  /\ calls = <<>>

\* const firstCapture = await platform.captureWindow(...) throws.
SeedCaptureFails ==
  /\ pc = "start"
  /\ pc' = "failed"
  /\ result' = Throws("CaptureFailure")
  /\ log' = Append(log, Event("capture", FALSE, scene.pos, ""))
  /\ UNCHANGED <<files, instance, calls, heap, params, scrollDelay, server,
                 maxScrolls, overlapPixels,
                 screenshots, previousHash,
                 unchangedCount, i, capture, platform, scene, tops>>

SeedCaptureForgetsSeed ==
  /\ pc = "start"
  /\ \E firstHash \in {hashImage(captureWindow)} :
       /\ previousHash' = firstHash
       /\ pc' = IF firstHash = NeverReturns THEN "hang" ELSE "loop"
       /\ log' = log \o <<Event("capture", TRUE, scene.pos, ""),
                           Event("hash", TRUE, 0, firstHash)>>
  /\ screenshots' = <<>>
  /\ tops' = <<>>
  /\ unchangedCount' = 0
  /\ i' = 0
  /\ UNCHANGED <<files, instance, calls, heap, params, scrollDelay, server,
                 maxScrolls, overlapPixels,
                 capture, result, platform, scene>>

\* The seed: screenshots = [firstCapture]; previousHash =
\* hashImage(firstCapture); unchangedCount = 0; i = 0.
SeedCapture ==
  /\ pc = "start"
  /\ \E firstCapture \in {captureWindow} :
       \E firstHash \in {hashImage(firstCapture)} :
         /\ screenshots' = <<firstCapture>>
         /\ previousHash' = firstHash
         /\ pc' = IF firstHash = NeverReturns THEN "hang" ELSE "loop"
         /\ log' = log \o <<Event("capture", TRUE, scene.pos, ""),
                             Event("hash", TRUE, 0, firstHash)>>
  /\ tops' = <<scene.pos>>
  /\ unchangedCount' = 0
  /\ i' = 0
  /\ UNCHANGED <<files, instance, calls, heap, params, scrollDelay, server,
                 maxScrolls, overlapPixels,
                 capture, result, platform, scene>>

loopConditionOneShort(k, n) == k + 1 < n

\* i < maxScrolls
loopCondition(k, n) == k < n

\* for (...; i < maxScrolls; ...)
LoopTest ==
  /\ pc = "loop"
  /\ pc' = IF loopCondition(i, maxScrolls) THEN "scroll" ELSE "stitch"
  /\ UNCHANGED <<files, instance, calls, heap, params, scrollDelay, server,
                 maxScrolls, overlapPixels,
                 screenshots, previousHash,
                 unchangedCount, i, capture, result, platform, scene, tops,
                 log>>

\* The key presses one scroll call asks for: one Page Down on win32;
\* "repeat Math.ceil(amount / 100) times" on darwin, with amount = 0.
keyPresses(amount) ==
  IF platform = "win32" THEN 1 ELSE (amount + 99) \div 100

\* await scrollWindow(windowHandle, 0) on win32 and darwin, the script
\* having run: the window moves a page, or stays (end of the content, or
\* no key was pressed).
ScrollGesture ==
  /\ pc = "scroll"
  /\ platform \in {"win32", "darwin"}
  /\ \E moved \in BOOLEAN :
       /\ moved => keyPresses(0) > 0
       /\ scene' = [scene EXCEPT !.pos = IF moved THEN @ + scene.page ELSE @]
  /\ log' = Append(log, Event("scroll", TRUE, keyPresses(0), ""))
  /\ pc' = "wait"
  /\ UNCHANGED <<files, instance, calls, heap, params, scrollDelay, server,
                 maxScrolls, overlapPixels,
                 screenshots, previousHash,
                 unchangedCount, i, capture, result, platform, tops>>

ScrollGestureFailsAndThrows ==
  /\ pc = "scroll"
  /\ platform \in {"win32", "darwin"}
  /\ log' = Append(log, Event("scroll", FALSE, 0, ""))
  /\ pc' = "failed"
  /\ result' = Throws("ScrollActuationError")
  /\ UNCHANGED <<files, instance, calls, heap, params, scrollDelay, server,
                 maxScrolls, overlapPixels,
                 screenshots, previousHash, unchangedCount, i, capture,
                 platform, scene, tops>>

\* The script fails: catch (error) { console.error(...) }, and the call
\* returns.
ScrollGestureFails ==
  /\ pc = "scroll"
  /\ platform \in {"win32", "darwin"}
  /\ log' = Append(log, Event("scroll", FALSE, 0, ""))
  /\ pc' = "wait"
  /\ UNCHANGED <<files, instance, calls, heap, params, scrollDelay, server,
                 maxScrolls, overlapPixels,
                 screenshots, previousHash,
                 unchangedCount, i, capture, result, platform, scene, tops>>

\* Any other platform: scrollWindow throws.
ScrollUnsupported ==
  /\ pc = "scroll"
  /\ platform \notin {"win32", "darwin"}
  /\ pc' = "failed"
  /\ result' = Throws("CAPTURE_FAILED")
  /\ log' = Append(log, Event("scroll", FALSE, 0, ""))
  /\ UNCHANGED <<files, instance, calls, heap, params, scrollDelay, server,
                 maxScrolls, overlapPixels,
                 screenshots, previousHash,
                 unchangedCount, i, capture, platform, scene, tops>>

\* await sleep(scrollDelay)
Sleep ==
  /\ pc = "wait"
  /\ pc' = "capture"
  /\ log' = Append(log, Event("wait", TRUE, 0, ""))
  /\ UNCHANGED <<files, instance, calls, heap, params, scrollDelay, server,
                 maxScrolls, overlapPixels,
                 screenshots, previousHash,
                 unchangedCount, i, capture, result, platform, scene, tops>>

\* const capture = await platform.captureWindow(...)
Capture ==
  /\ pc = "capture"
  /\ capture' = captureWindow
  /\ pc' = "compare"
  /\ log' = Append(log, Event("capture", TRUE, scene.pos, ""))
  /\ UNCHANGED <<files, instance, calls, heap, params, scrollDelay, server,
                 maxScrolls, overlapPixels,
                 screenshots, previousHash,
                 unchangedCount, i, result, platform, scene, tops>>

CaptureFailsKeepsFrames ==
  /\ pc = "capture"
  /\ pc' = "stitch"
  /\ log' = Append(log, Event("capture", FALSE, scene.pos, ""))
  /\ UNCHANGED <<files, instance, calls, heap, params, scrollDelay, server,
                 maxScrolls, overlapPixels,
                 screenshots, previousHash, unchangedCount, i, capture,
                 result, platform, scene, tops>>

\* A capture that throws, were it tried again.
CaptureFailsRetries ==
  /\ pc = "capture"
  /\ pc' = "capture"
  /\ log' = Append(log, Event("capture", FALSE, scene.pos, ""))
  /\ UNCHANGED <<files, instance, calls, heap, params, scrollDelay, server,
                 maxScrolls, overlapPixels,
                 screenshots, previousHash, unchangedCount, i, capture,
                 result, platform, scene, tops>>

\* const capture = await platform.captureWindow(...) throws.
CaptureFails ==
  /\ pc = "capture"
  /\ pc' = "failed"
  /\ result' = Throws("CaptureFailure")
  /\ log' = Append(log, Event("capture", FALSE, scene.pos, ""))
  /\ UNCHANGED <<files, instance, calls, heap, params, scrollDelay, server,
                 maxScrolls, overlapPixels,
                 screenshots, previousHash,
                 unchangedCount, i, capture, platform, scene, tops>>

reachedBottomAtOnce(count) == count >= 1

\* if (unchangedCount >= 2) break
reachedBottom(count) == count >= 2

\* The comparison step, were previousHash = currentHash left out after a
\* changed capture.
CompareKeepsPreviousHash ==
  /\ pc = "compare"
  /\ \E currentHash \in {hashImage(capture)} :
         /\ IF currentHash = previousHash
            THEN /\ unchangedCount' = unchangedCount + 1
                 /\ UNCHANGED <<screenshots, tops, previousHash>>
                 /\ IF reachedBottom(unchangedCount + 1)
                    THEN /\ pc' = "stitch"
                         /\ UNCHANGED i
                    ELSE /\ pc' = "loop"
                         /\ i' = i + 1
            ELSE /\ unchangedCount' = 0
                 /\ screenshots' = Append(screenshots, capture)
                 /\ tops' = Append(tops, scene.pos)
                 /\ UNCHANGED previousHash
                 /\ i' = i + 1
                 /\ pc' = "loop"
         /\ log' = Append(log, Event("hash", TRUE, 0, currentHash))
  /\ UNCHANGED <<files, instance, calls, heap, params, scrollDelay, server,
                 maxScrolls, overlapPixels,
                 capture, result, platform, scene>>

\* The comparison step, were it to append the capture that brings the
\* unchanged streak to 1.
CompareAppendsFirstUnchanged ==
  /\ pc = "compare"
  /\ \E currentHash \in {hashImage(capture)} :
         /\ IF currentHash = previousHash
            THEN /\ unchangedCount' = unchangedCount + 1
                 /\ IF reachedBottom(unchangedCount + 1)
                    THEN /\ pc' = "stitch"
                         /\ UNCHANGED <<previousHash, i, screenshots, tops>>
                    ELSE /\ pc' = "loop"
                         /\ screenshots' = Append(screenshots, capture)
                         /\ tops' = Append(tops, scene.pos)
                         /\ previousHash' = currentHash
                         /\ i' = i + 1
            ELSE /\ unchangedCount' = 0
                 /\ screenshots' = Append(screenshots, capture)
                 /\ tops' = Append(tops, scene.pos)
                 /\ previousHash' = currentHash
                 /\ i' = i + 1
                 /\ pc' = "loop"
         /\ log' = Append(log, Event("hash", TRUE, 0, currentHash))
  /\ UNCHANGED <<files, instance, calls, heap, params, scrollDelay, server,
                 maxScrolls, overlapPixels,
                 capture, result, platform, scene>>

\* const currentHash = hashImage(capture); the comparison with
\* previousHash; previousHash = currentHash; i++.
Compare ==
  /\ pc = "compare"
  /\ \E currentHash \in {hashImage(capture)} :
         /\ IF currentHash = previousHash
            THEN /\ unchangedCount' = unchangedCount + 1
                 /\ UNCHANGED <<screenshots, tops>>
                 /\ IF reachedBottom(unchangedCount + 1)
                    THEN /\ pc' = "stitch"
                         /\ UNCHANGED <<previousHash, i>>
                    ELSE /\ pc' = "loop"
                         /\ previousHash' = currentHash
                         /\ i' = i + 1
            ELSE /\ unchangedCount' = 0
                 /\ screenshots' = Append(screenshots, capture)
                 /\ tops' = Append(tops, scene.pos)
                 /\ previousHash' = currentHash
                 /\ i' = i + 1
                 /\ pc' = "loop"
         /\ log' = Append(log, Event("hash", TRUE, 0, currentHash))
  /\ UNCHANGED <<files, instance, calls, heap, params, scrollDelay, server,
                 maxScrolls, overlapPixels,
                 capture, result, platform, scene>>

\* const result = stitchImages(screenshots, overlapPixels); return result
Stitch ==
  /\ pc = "stitch"
  /\ \E stitched \in {stitchImages(screenshots, overlapPixels)} :
       /\ result' = stitched
       /\ pc' = IF stitched.status = "ok" THEN "done" ELSE "failed"
       /\ log' = Append(log, Event("stitch", stitched.status = "ok", 0, ""))
  /\ UNCHANGED <<files, instance, calls, heap, params, scrollDelay, server,
                 maxScrolls, overlapPixels,
                 screenshots, previousHash,
                 unchangedCount, i, capture, platform, scene, tops>>

Next ==
  \/ SeedCapture
  \/ SeedCaptureFails
  \/ LoopTest
  \/ ScrollGesture
  \/ ScrollGestureFails
  \/ ScrollUnsupported
  \/ Sleep
  \/ Capture
  \/ CaptureFails
  \/ Compare
  \/ Stitch

Spec == Init /\ [][Next]_vars

---------------------------------------------------------------------------
(* Direct calls of stitchImages and findBestOverlap on frame lists *)

\* The heights of the frames of a list: any heights for one or two frames,
\* one height for longer lists.
HeightLists ==
  UNION { [1..n -> Heights] : n \in 1..Min(2, MaxFrames) }
  \cup { [k \in 1..n |-> h] : n \in 3..MaxFrames, h \in Heights }

\* Successive windows sharing ov rows: the top of each.
RECURSIVE TopOf(_, _, _)
TopOf(hs, ov, k) ==
  IF k = 1 THEN 0 ELSE TopOf(hs, ov, k - 1) + hs[k - 1] - ov

FnInit ==
  /\ pc = "call"
  /\ overlapPixels \in Hints
  /\ \E kind \in Kinds, w \in Widths, ov \in TrueOverlaps :
       \/ /\ scene = [kind |-> kind, width |-> w, height |-> 0,
                      page |-> 0, pos |-> 0]
          /\ tops = <<>>
          /\ screenshots = <<>>
       \/ \E hs \in HeightLists :
            /\ scene = [kind |-> kind, width |-> w, height |-> hs[1],
                        page |-> hs[1] - ov, pos |-> 0]
            /\ tops = [k \in 1..Len(hs) |-> TopOf(hs, ov, k)]
            /\ screenshots =
                 [k \in 1..Len(hs) |-> Window(kind, TopOf(hs, ov, k), w, hs[k])]
       \/ /\ overlapPixels = 50
          /\ scene = [kind |-> kind, width |-> w, height |-> 300,
                      page |-> 250, pos |-> 0]
          /\ tops = <<0, 250, 500>>
          /\ screenshots =
               [k \in 1..3 |-> Window(kind, 250 * (k - 1), w, 300)]
  /\ maxScrolls = 0
  /\ platform = "win32"
  /\ previousHash = ""
  /\ unchangedCount = 0
  /\ i = 0
  /\ capture = NoFrame
  /\ result = NoResult
  /\ log = <<>>
  /\ params = NoParams
  /\ scrollDelay = 500
  /\ server = NoServer
  /\ heap = 1
  /\ files = NoFiles
  /\ instance = null
  /\ calls = <<>>

\* findBestOverlap(images[k - 1], images[k], overlapPixels) on the first
\* two frames of the list, or the last two: the value returned, and the
\* bestScore it logs.
CallFindBestOverlap ==
  /\ pc = "call"
  /\ Len(screenshots) >= 2
  /\ \E k \in {1, Len(screenshots) - 1} :
       \E best \in {Resolve(screenshots[k], screenshots[k + 1],
                             overlapPixels)} :
         result' = [status |-> "ok", pair |-> k,
                    overlap |-> Returned(best),
                    bestScore |-> best.bestScore]
  /\ pc' = "resolved"
  /\ UNCHANGED <<files, instance, calls, heap, params, scrollDelay, server,
                 maxScrolls, overlapPixels,
                 screenshots, previousHash,
                 unchangedCount, i, capture, platform, scene, tops, log>>

\* stitchImages(images, overlapPixels).
CallStitchImages ==
  /\ pc = "call"
  /\ result' = stitchImages(screenshots, overlapPixels)
  /\ pc' = "stitched"
  /\ heap' = heap + 1
  /\ UNCHANGED <<files, instance, calls, params, scrollDelay, server,
                 maxScrolls, overlapPixels,
                 screenshots, previousHash,
                 unchangedCount, i, capture, platform, scene, tops, log>>

\* stitchImages(images, overlapPixels) once more, on the same arguments,
\* with the memory as the first call left it.
CallStitchImagesAgain ==
  /\ pc = "stitched"
  /\ \E again \in {stitchImages(screenshots, overlapPixels)} :
       result' = [first |-> result, second |-> again]
  /\ pc' = "restitched"
  /\ heap' = heap + 1
  /\ UNCHANGED <<files, instance, calls, params, scrollDelay, server,
                 maxScrolls, overlapPixels,
                 screenshots, previousHash,
                 unchangedCount, i, capture, platform, scene, tops, log>>

FnNext ==
  \/ CallFindBestOverlap
  \/ CallStitchImages
  \/ CallStitchImagesAgain

SpecFn == FnInit /\ [][FnNext]_vars

---------------------------------------------------------------------------
(* What the log shows of a session *)

IsHash(e) == e.op = "hash"

IsCapture(e) == e.op = "capture" /\ e.ok

IsScroll(e) == e.op = "scroll"

\* The fingerprints computed so far, the seed's first.
Fingerprints == SelectSeq(log, IsHash)

\* The captures returned so far, the seed first.
CapturesDone == SelectSeq(log, IsCapture)

\* The scroll calls made so far.
ScrollsDone == SelectSeq(log, IsScroll)

\* Fingerprint number k equals the one before it.
Unchanged(k) ==
  /\ k >= 2
  /\ k <= Len(Fingerprints)
  /\ Fingerprints[k].fp = Fingerprints[k - 1].fp

\* Every fingerprint but the seed's differs from the one before it.
AllChanged == \A k \in 2..Len(Fingerprints) : ~Unchanged(k)

\* The number of unchanged fingerprints the log ends with.
Streak ==
  LET n == Len(Fingerprints)
  IN  IF ~Unchanged(n) THEN 0 ELSE IF ~Unchanged(n - 1) THEN 1 ELSE 2

---------------------------------------------------------------------------
(* Claims about the capture loop, under Spec *)

\* Two unchanged fingerprints in a row occur only as the last two.
TwoUnchangedOnlyLast ==
  \A k \in 1..(Len(Fingerprints) - 1) : ~(Unchanged(k) /\ Unchanged(k - 1))

\* C2: the comparison step leaves the loop exactly when the fingerprint it
\* computed and the one before it are both unchanged; the streak counter is
\* the number of unchanged fingerprints the log ends with (0 after a changed
\* one), and no capture follows two unchanged ones.
C2_StopsAfterTwoUnchanged ==
  /\ [](unchangedCount = Streak /\ TwoUnchangedOnlyLast)
  /\ [][ (pc = "compare" /\ pc' # "compare")
         => ((pc' = "stitch") <=> (Streak' = 2)) ]_vars

\* One unchanged capture, then a changed one, then two unchanged ones, and
\* the loop left before maxScrolls.
C2_Witness ==
  /\ pc = "stitch"
  /\ i < maxScrolls
  /\ Len(Fingerprints) = 5
  /\ Unchanged(2) /\ ~Unchanged(3) /\ Unchanged(4) /\ Unchanged(5)

\* C3: when the loop has ended and every fingerprint differed from the one
\* before, maxScrolls scrolls and maxScrolls + 1 captures were made, and the
\* retained frames are the captures, in capture order.
C3_RetainsAllWhenAllChanged ==
  (pc \in {"stitch", "done"} /\ AllChanged)
  => /\ Len(ScrollsDone) = maxScrolls
     /\ Len(CapturesDone) = maxScrolls + 1
     /\ screenshots =
          [k \in 1..(maxScrolls + 1) |->
             Window(scene.kind, CapturesDone[k].n, scene.width, scene.height)]

C3_Witness ==
  /\ pc = "stitch"
  /\ AllChanged
  /\ maxScrolls = 3
  /\ Len(screenshots) = 4

\* A session whose pending step is always eventually taken: every await of
\* captureLongScreenshot settles and every synchronous call that can return
\* does.
LiveSpec == Spec /\ WF_vars(Next)

\* C4: the loop makes at most maxScrolls iterations, and every session
\* reaches a final outcome, a stitched image or an error.
C4_SessionTerminates ==
  /\ [](i <= maxScrolls /\ Len(ScrollsDone) <= maxScrolls)
  /\ <>(pc \in {"done", "failed"})

---------------------------------------------------------------------------
(* Claims about stitchImages and findBestOverlap, under SpecFn *)

\* The rows frame k and frame k+1 of the list really share.
TrueOverlap(k) == tops[k] + screenshots[k].height - tops[k + 1]

\* The document from the top of the first frame to the bottom of the last.
Document ==
  LET n == Len(screenshots)
  IN  Window(scene.kind, tops[1], scene.width,
             tops[n] + screenshots[n].height - tops[1])

\* stitchImages returned a buffer for a list of at least n frames.
Stitched(n) ==
  pc = "stitched" /\ result.status = "ok" /\ Len(screenshots) >= n

\* C1: when every resolved overlap is the true overlap of its pair, the
\* stitched buffer is the document from the top of the first frame to the
\* bottom of the last: every row once, in order, none blank.
C1_StitchedEqualsDocument ==
  (Stitched(1) /\ \A k \in 1..Len(result.overlaps) :
                     result.overlaps[k] = TrueOverlap(k))
  => result.image = Document

\* frames[0].height + the sum over i < k of frames[i+1].height - overlaps[i]
RECURSIVE CursorAfter(_)
CursorAfter(k) ==
  IF k = 0 THEN screenshots[1].height
  ELSE CursorAfter(k - 1) + screenshots[k + 1].height - result.overlaps[k]

C6_CopiesAtCursor ==
  Stitched(2)
  => /\ \A k \in 1..Len(result.copies) :
          /\ result.copies[k].sourceStart
               = result.overlaps[k] * result.image.width * 4
          /\ result.copies[k].destStart
               = CursorAfter(k - 1) * result.image.width * 4
     /\ result.currentY = result.image.height

\* The pair of frames findBestOverlap was called on.
Prior == screenshots[result.pair]

Following == screenshots[result.pair + 1]

\* C7: the overlap returned for a pair is a whole number of rows between 0
\* and the height of the shorter frame.
C7_OverlapWithinFrames ==
  pc = "resolved"
  => result.overlap \in 0..Min(Prior.height, Following.height)

\* The bottom o rows of prior are byte for byte the top o rows of next.
BandIdentical(prior, next, o) ==
  /\ prior.width = next.width
  /\ \A n \in 1..(o * prior.width * 4) :
       prior.data[(prior.height - o) * prior.width * 4 + n] = next.data[n]

\* The candidates of the range, in rows, whose band is identical.
IdenticalCandidates ==
  {o \in 0..Min(Prior.height, Following.height) :
     /\ (Q * o) \in Scored(Prior, Following, overlapPixels)
     /\ BandIdentical(Prior, Following, o)}

\* The candidates of the range, in sixths, whose compared samples all match.
ZeroCandidates ==
  {o \in Scored(Prior, Following, overlapPixels) :
     Score(Prior, Following, o).sum = 0}

\* The value returned is a candidate of the range whose distance is zero.
ReturnsZeroCandidate ==
  /\ (Q * result.overlap) \in Scored(Prior, Following, overlapPixels)
  /\ result.bestScore.sum = 0
  /\ result.bestScore.samples > 0

\* Two of three 300-row frames 250 rows apart, with hint 50.
Scenario ==
  /\ overlapPixels = 50
  /\ tops = <<0, 250, 500>>
  /\ Prior.height = 300 /\ Following.height = 300

\* C8 as stated: when some candidate's band is identical the value
\* returned is a candidate with zero distance, and in the scenario it is
\* within 5 of 50.
C8_ReturnsTrueOverlap ==
  pc = "resolved"
  => /\ (IdenticalCandidates # {} => ReturnsZeroCandidate)
     /\ (Scenario => result.overlap \in 45..55)

\* C8 amended: when some candidate's band is identical the value returned
\* is a candidate with zero distance; whenever some candidate has zero
\* distance the value returned is the smallest of them; in the scenario
\* that is 50 when no smaller candidate has zero distance.
C8_ReturnsSmallestZeroCandidate ==
  pc = "resolved"
  => /\ (IdenticalCandidates # {} => ReturnsZeroCandidate)
     /\ (ZeroCandidates # {}
           => /\ (Q * result.overlap) \in ZeroCandidates
              /\ \A o \in ZeroCandidates : Q * result.overlap <= o)
     /\ ((Scenario /\ \A o \in ZeroCandidates : o >= Q * 50)
           => result.overlap = 50)

\* The scenario on a document whose rows all differ: 50 is returned.
C8_Witness ==
  /\ pc = "resolved"
  /\ Scenario
  /\ scene.kind = "distinct"
  /\ IdenticalCandidates = {50}
  /\ result.overlap = 50
  /\ result.bestScore.sum = 0

\* C9: when the candidate range is empty the value returned is the hint,
\* clamped to the height of the shorter frame.
C9_EmptyRangeClampsHint ==
  (pc = "resolved" /\ passes(Prior, Following, overlapPixels) = 0)
  => result.overlap
       = Min(overlapPixels, Min(Prior.height, Following.height))

\* Every read of every sample of every scored candidate yields a byte.
ReadsInside ==
  \A o \in Scored(Prior, Following, overlapPixels) :
    \A y \in SampleRows(o), x \in SampleColumns(Prior) :
      \A c \in 0..2 :
        /\ Reads1(Prior, o, y, x)[c] # undefined
        /\ Reads2(Prior, Following, y, x)[c] # undefined

\* C10: every position the resolver reads is a row and a column of the
\* frame read; with two 40-row frames and hint 50 the candidate range is
\* not empty and no candidate exceeds 40 rows.
C10_ReadsInsideFrames ==
  pc = "resolved"
  => /\ ReadsInside
     /\ ((Prior.height = 40 /\ Following.height = 40 /\ overlapPixels = 50)
           => /\ Candidates(Prior, Following, overlapPixels) # {}
              /\ \A o \in Candidates(Prior, Following, overlapPixels) :
                   o <= Q * 40)

---------------------------------------------------------------------------
(* Claims about failures in a session, under Spec and LiveSpec *)

\* Event k of the log is a capture that failed.
CaptureFailedAt(k) == log[k].op = "capture" /\ ~log[k].ok

\* Event k of the log is a scroll call whose script failed.
ScrollFailedAt(k) == log[k].op = "scroll" /\ ~log[k].ok

StitchRun == \E k \in 1..Len(log) : log[k].op = "stitch"

Supported == platform \in {"win32", "darwin"}

\* C11: a failed capture, the seed's or a later one, is the last thing the
\* session does: it ends with that failure, nothing is scrolled or
\* captured after it, stitchImages is never run and no buffer is returned.
C11_CaptureFailureAborts ==
  \A k \in 1..Len(log) :
    CaptureFailedAt(k)
    => /\ k = Len(log)
       /\ pc = "failed"
       /\ result = Throws("CaptureFailure")
       /\ ~StitchRun

\* A later capture fails when two frames are already retained.
C11_Witness ==
  /\ Len(log) > 0
  /\ CaptureFailedAt(Len(log))
  /\ Len(screenshots) >= 2
  /\ pc = "failed"

\* After a failed script the iteration goes on: wait, capture, hash.
GoesOnAfterFailedScroll ==
  \A k \in 1..Len(log) :
    (ScrollFailedAt(k) /\ Supported)
    => /\ (k = Len(log) => pc = "wait")
       /\ (k + 1 <= Len(log) => log[k + 1].op = "wait")
       /\ (k + 2 <= Len(log) => log[k + 2].op = "capture")
       /\ ((k + 3 <= Len(log) /\ log[k + 2].ok) => log[k + 3].op = "hash")

\* At least one scroll call was made and the script failed in each.
EveryGestureFailed ==
  /\ Len(ScrollsDone) > 0
  /\ \A k \in 1..Len(ScrollsDone) : ~ScrollsDone[k].ok

\* A session whose every gesture failed leaves the loop by the streak rule
\* or by maxScrolls, returns the seed frame, and fails only by a capture.
EndsNormallyWhenEveryGestureFails ==
  (EveryGestureFailed /\ Supported)
  => /\ (pc \in {"stitch", "done"}
          => (unchangedCount = 2 \/ i = maxScrolls))
     /\ (pc = "done" => result.image = screenshots[1])
     /\ (pc = "failed" => CaptureFailedAt(Len(log)))

\* C12: a failed scroll script never ends the session: the iteration
\* waits, captures and fingerprints as after a successful one, the session
\* reaches an outcome, and when every gesture fails it ends through the
\* streak rule or maxScrolls.
C12_ScrollFailureGoesOn ==
  /\ [](GoesOnAfterFailedScroll /\ EndsNormallyWhenEveryGestureFails)
  /\ ((Len(log) > 0 /\ ScrollFailedAt(Len(log)) /\ Supported)
        ~> (pc \in {"done", "failed"}))

\* Two gestures failed, two unchanged captures, the seed frame returned.
C12_Witness ==
  /\ pc = "done"
  /\ EveryGestureFailed
  /\ Len(ScrollsDone) = 2
  /\ unchangedCount = 2
  /\ maxScrolls > 2

\* C13: on a platform without a scroll gesture no session reaches the
\* stitcher or returns a buffer; once the seed is captured it fails with
\* PLATFORM_NOT_SUPPORTED, with no capture but the seed.
C13_UnsupportedPlatformFails ==
  ~Supported
  => /\ pc \notin {"stitch", "done"}
     /\ ((pc = "failed" /\ Len(CapturesDone) > 0)
           => /\ result = Throws("PLATFORM_NOT_SUPPORTED")
              /\ Len(CapturesDone) = 1)

\* C15: every scroll call whose script ran pressed the key exactly once.
C15_OneGesturePerScroll ==
  \A k \in 1..Len(ScrollsDone) :
    (ScrollsDone[k].ok /\ Supported) => ScrollsDone[k].n = 1

\* C20: the list handed to stitchImages holds the seed capture as its
\* first element, and stitchImages never throws its empty-list error.
C20_SeedAlwaysPresent ==
  (pc \in {"stitch", "done"} \/ StitchRun)
  => /\ Len(screenshots) >= 1
     /\ screenshots[1] = Window(scene.kind, CapturesDone[1].n, scene.width,
                                scene.height)
     /\ (StitchRun => result # Throws("CAPTURE_FAILED"))

\* maxScrolls = 0: stitchImages is run on the seed frame alone.
C20_Witness ==
  /\ pc = "done"
  /\ StitchRun
  /\ maxScrolls = 0
  /\ Len(screenshots) = 1

---------------------------------------------------------------------------
(* scrollWindowWindows: the PowerShell script, statement by statement *)

\* The script's statements, in order.
Statements ==
  <<"ShowWindow", "GetWindowThreadProcessId", "AttachThreadInput(true)",
    "SetForegroundWindow", "keybd_event(down)", "keybd_event(up)",
    "AttachThreadInput(false)", "exit">>

\* What the script and the catch around it leave alone.
ScriptFrame ==
  UNCHANGED <<files, instance, calls, heap,
              maxScrolls, overlapPixels, screenshots, previousHash,
              unchangedCount, capture, platform, tops, params,
              scrollDelay, server>>

\* scene is here the input state of the OS: whether the script's thread is
\* attached to the window's input thread (attached), whether the two
\* threads differ (differ) and the key events synthesized (keys).  i is
\* the number of the next statement.
ScriptInit ==
  /\ pc = "script"
  /\ i = 1
  /\ scene = [attached |-> FALSE, differ |-> FALSE, keys |-> <<>>]
  /\ platform = "win32"
  /\ result = NoResult
  /\ log = <<>>
  /\ maxScrolls = 0
  /\ overlapPixels = 50
  /\ screenshots = <<>>
  /\ previousHash = ""
  /\ unchangedCount = 0
  /\ capture = NoFrame
  /\ tops = <<>>
  /\ params = NoParams
  /\ scrollDelay = 500
  /\ server = NoServer
  /\ heap = 1
  /\ files = NoFiles
  /\ instance = null
  /\ calls = <<>>

\* A statement has run and returned ok; the script goes on to the next.
Ran(ok) ==
  /\ i' = i + 1
  /\ log' = Append(log, Event(Statements[i], ok, 0, ""))
  /\ UNCHANGED <<pc, result>>

\* [WinAPI]::ShowWindow($handle, SW_RESTORE) | Out-Null; Start-Sleep 100
ScriptShowWindow ==
  /\ pc = "script" /\ i = 1
  /\ \E ok \in BOOLEAN : Ran(ok)
  /\ UNCHANGED scene
  /\ ScriptFrame

\* $currentThreadId = ...; $windowThreadId = GetWindowThreadProcessId(...)
ScriptThreadIds ==
  /\ pc = "script" /\ i = 2
  /\ \E differ \in BOOLEAN :
       /\ scene' = [scene EXCEPT !.differ = differ]
       /\ Ran(TRUE)
  /\ ScriptFrame

\* if ($windowThreadId -ne $currentThreadId) { AttachThreadInput(.., $true) }
ScriptAttach ==
  /\ pc = "script" /\ i = 3
  /\ IF scene.differ
     THEN \E ok \in BOOLEAN :
            /\ scene' = [scene EXCEPT !.attached = ok]
            /\ Ran(ok)
     ELSE /\ UNCHANGED scene
          /\ Ran(TRUE)
  /\ ScriptFrame

\* [WinAPI]::SetForegroundWindow($handle) | Out-Null; Start-Sleep 500
ScriptSetForeground ==
  /\ pc = "script" /\ i = 4
  /\ \E ok \in BOOLEAN : Ran(ok)
  /\ UNCHANGED scene
  /\ ScriptFrame

\* keybd_event(VK_NEXT, 0, 0, ...); Start-Sleep 50
ScriptKeyDown ==
  /\ pc = "script" /\ i = 5
  /\ scene' = [scene EXCEPT !.keys = Append(@, "down")]
  /\ Ran(TRUE)
  /\ ScriptFrame

\* keybd_event(VK_NEXT, 0, KEYEVENTF_KEYUP, ...)
ScriptKeyUp ==
  /\ pc = "script" /\ i = 6
  /\ scene' = [scene EXCEPT !.keys = Append(@, "up")]
  /\ Ran(TRUE)
  /\ ScriptFrame

\* if ($windowThreadId -ne $currentThreadId) { AttachThreadInput(.., $false) }
ScriptDetach ==
  /\ pc = "script" /\ i = 7
  /\ scene' = [scene EXCEPT !.attached = IF scene.differ THEN FALSE ELSE @]
  /\ Ran(TRUE)
  /\ ScriptFrame

\* The script ends: execAsync resolves, "Page Down completed" is logged
\* and scrollWindowWindows returns.
ScriptExit ==
  /\ pc = "script" /\ i = 8
  /\ pc' = "returned"
  /\ result' = [status |-> "ok"]
  /\ log' = Append(log, Event("exit", TRUE, 0, ""))
  /\ UNCHANGED <<scene, i>>
  /\ ScriptFrame

\* The script stops at the statement it was about to run (a terminating
\* error, or the powershell process ends): execAsync rejects, the catch
\* logs 'Page Down error' and scrollWindowWindows returns.  Nothing in the
\* script runs after the statement that stopped it.
ScriptTerminated ==
  /\ pc = "script" /\ i \in 1..7
  /\ pc' = "returned"
  /\ result' = [status |-> "logged"]
  /\ log' = Append(log, Event("exit", FALSE, 0, ""))
  /\ UNCHANGED <<scene, i>>
  /\ ScriptFrame

ScriptNext ==
  \/ ScriptShowWindow
  \/ ScriptThreadIds
  \/ ScriptAttach
  \/ ScriptSetForeground
  \/ ScriptKeyDown
  \/ ScriptKeyUp
  \/ ScriptDetach
  \/ ScriptExit
  \/ ScriptTerminated

SpecScript == ScriptInit /\ [][ScriptNext]_vars

\* C14: no scroll call on win32 returns with the script's thread still
\* attached to the window's input thread, whichever way the script ended.
C14_DetachedOnEveryExit ==
  pc = "returned" => ~scene.attached

---------------------------------------------------------------------------
(* main: the stdin 'data' handler and the requests it serves *)

\* The number of long-screenshot requests written to stdin.
MaxRequests == 2

\* What the handler and the sessions it runs leave alone.
ServerFrame ==
  UNCHANGED <<files, instance, calls, heap,
              pc, maxScrolls, overlapPixels, screenshots, previousHash,
              unchangedCount, i, capture, result, platform, scene, tops,
              params, scrollDelay>>

\* for (let i = 0; i < maxScrolls; i++) { scroll; sleep; capture }, as
\* the calls it awaits.
RECURSIVE LoopAwaits(_)
LoopAwaits(n) ==
  IF n = 0 THEN <<>>
  ELSE LoopAwaits(n - 1) \o <<"scroll", "wait", "capture">>

\* await server.handleRequest(request) for a long-screenshot tool call:
\* the calls the session awaits (the seed capture, then the loop), then the
\* response.  It takes no lock and keeps no queue.
handleRequest(n) == <<"capture">> \o LoopAwaits(n) \o <<"finish">>

\* server.stdin holds the requests not yet read, in order; each handler
\* is one run of the 'data' callback: the lines of its chunk it has still
\* to serve (lines) and the awaits of the first of them it has passed
\* (passed).
ServerInit ==
  /\ pc = "serving"
  /\ maxScrolls \in 1..2
  /\ server = [stdin |-> [r \in 1..MaxRequests |-> r], handlers |-> <<>>]
  /\ heap = 1
  /\ files = NoFiles
  /\ instance = null
  /\ calls = <<>>
  /\ log = <<>>
  /\ platform = "win32"
  /\ scene = [kind |-> "distinct", width |-> 1, height |-> 30,
              page |-> 15, pos |-> 0]
  /\ overlapPixels = 50
  /\ screenshots = <<>>
  /\ previousHash = ""
  /\ unchangedCount = 0
  /\ i = 0
  /\ capture = NoFrame
  /\ result = NoResult
  /\ tops = <<>>
  /\ params = NoParams
  /\ scrollDelay = 500

\* process.stdin.on('data', async (chunk) => ...): a chunk holding the
\* next n lines arrives; the callback starts and runs to its first await.
StdinData ==
  /\ pc = "serving"
  /\ \E n \in 1..Len(server.stdin) :
       server' =
         [ stdin    |-> SubSeq(server.stdin, n + 1, Len(server.stdin)),
           handlers |-> Append(server.handlers,
                               [ lines  |-> SubSeq(server.stdin, 1, n),
                                 passed |-> 0 ]) ]
  /\ UNCHANGED log
  /\ ServerFrame

\* The call handler h awaits inside its session settles: the scroll, the
\* sleep or the capture is done for the request at the head of its lines.
HandlerAwait(h) ==
  /\ pc = "serving"
  /\ server.handlers[h].lines # <<>>
  /\ LET op == handleRequest(maxScrolls)[server.handlers[h].passed + 1]
     IN  /\ op # "finish"
         /\ log' = Append(log, Event(op, TRUE, Head(server.handlers[h].lines),
                                     ""))
         /\ server' = [server EXCEPT !.handlers[h].passed = @ + 1]
  /\ ServerFrame

\* The session of handler h returns: console.log(JSON.stringify(response)),
\* and the for loop goes to the next line of the chunk.
HandlerResponds(h) ==
  /\ pc = "serving"
  /\ server.handlers[h].lines # <<>>
  /\ handleRequest(maxScrolls)[server.handlers[h].passed + 1] = "finish"
  /\ log' = Append(log, Event("finish", TRUE,
                              Head(server.handlers[h].lines), ""))
  /\ server' = [server EXCEPT !.handlers[h].lines = Tail(@),
                              !.handlers[h].passed = 0]
  /\ ServerFrame

ServerNext ==
  \/ StdinData
  \/ \E h \in 1..Len(server.handlers) : HandlerAwait(h)
  \/ \E h \in 1..Len(server.handlers) : HandlerResponds(h)

SpecServer == ServerInit /\ [][ServerNext]_vars

\* Event k of the log is a scroll or a capture.
Actuates(k) == log[k].op \in {"scroll", "capture"}

\* C16: when a session scrolls or captures, every other session that has
\* scrolled or captured before has already finished.
C16_OneSessionAtATime ==
  \A k \in 1..Len(log) :
    Actuates(k)
    => \A j \in 1..(k - 1) :
         (Actuates(j) /\ log[j].n # log[k].n)
         => \E f \in (j + 1)..(k - 1) :
              log[f].op = "finish" /\ log[f].n = log[j].n

---------------------------------------------------------------------------
(* tools/call: how a request's arguments become a session's options *)

\* What a tool call's numeric argument can be: absent, or a number.
ArgValues(good) == {undefined, -5, 0} \cup good

ToolNames == {"window-screenshot", "capture-and-save", "screenshot-all"}

\* options.x ?? d
Coalesce(v, d) == IF v = undefined THEN d ELSE v

\* What a tool call leaves alone.
ToolFrame ==
  UNCHANGED <<files, instance, calls, heap,
              screenshots, previousHash, unchangedCount, i, capture,
              platform, scene, tops, params, server>>

ToolInit ==
  /\ pc = "call"
  /\ params \in [ tool           : ToolNames,
                  longScreenshot : BOOLEAN,
                  scrollDelay    : ArgValues({800}),
                  maxScrolls     : ArgValues({2}),
                  overlapPixels  : ArgValues({30}),
                  scrollAmount   : {undefined, 250} ]
  /\ scrollDelay = undefined
  /\ maxScrolls = undefined
  /\ overlapPixels = undefined
  /\ log = <<>>
  /\ platform \in Platforms
  /\ scene = [kind |-> "distinct", width |-> 1, height |-> 30,
              page |-> 15, pos |-> 0]
  /\ screenshots = <<>>
  /\ previousHash = ""
  /\ unchangedCount = 0
  /\ i = 0
  /\ capture = NoFrame
  /\ result = NoResult
  /\ tops = <<>>
  /\ server = NoServer
  /\ heap = 1
  /\ files = NoFiles
  /\ instance = null
  /\ calls = <<>>

\* handleToolCall: the tool is looked up by name and executed with the
\* request's arguments as they are.
HandleToolCall ==
  /\ pc = "call"
  /\ params.tool \in {"window-screenshot", "capture-and-save"}
  /\ pc' = "execute"
  /\ log' = Append(log, Event("execute", TRUE, 0, ""))
  /\ UNCHANGED <<result, scrollDelay, maxScrolls, overlapPixels>>
  /\ ToolFrame

\* handleToolCall: no tool of that name is registered.
HandleToolNotFound ==
  /\ pc = "call"
  /\ params.tool \notin {"window-screenshot", "capture-and-save"}
  /\ pc' = "responded"
  /\ result' = Throws("METHOD_NOT_FOUND")
  /\ UNCHANGED <<log, scrollDelay, maxScrolls, overlapPixels>>
  /\ ToolFrame

\* execute with longScreenshot: options are the four arguments, and
\* captureLongScreenshot fills the absent ones with its defaults.
ExecuteLong ==
  /\ pc = "execute"
  /\ params.longScreenshot
  /\ scrollDelay' = Coalesce(params.scrollDelay, 500)
  /\ maxScrolls' = Coalesce(params.maxScrolls, 20)
  /\ overlapPixels' = Coalesce(params.overlapPixels, 50)
  /\ pc' = "session"
  /\ log' = Append(log, Event("session", TRUE, 0, ""))
  /\ UNCHANGED result
  /\ ToolFrame

\* execute without longScreenshot: one captureWindow, no session.
ExecuteSingle ==
  /\ pc = "execute"
  /\ ~params.longScreenshot
  /\ pc' = "responded"
  /\ log' = Append(log, Event("capture", TRUE, 0, ""))
  /\ result' = [status |-> "ok"]
  /\ UNCHANGED <<scrollDelay, maxScrolls, overlapPixels>>
  /\ ToolFrame

\* The first scroll call of the session, on win32 and darwin:
\* await scrollWindow(windowHandle, 0), whatever options.scrollAmount is.
SessionScrolls ==
  /\ pc = "session"
  /\ loopCondition(0, maxScrolls)
  /\ platform \in {"win32", "darwin"}
  /\ pc' = "scrolled"
  /\ log' = Append(log, Event("scroll", TRUE, keyPresses(0), ""))
  /\ UNCHANGED <<result, scrollDelay, maxScrolls, overlapPixels>>
  /\ ToolFrame

\* The first scroll call of the session on any other platform throws.
SessionScrollThrows ==
  /\ pc = "session"
  /\ loopCondition(0, maxScrolls)
  /\ platform \notin {"win32", "darwin"}
  /\ pc' = "responded"
  /\ result' = Throws("CAPTURE_FAILED")
  /\ log' = Append(log, Event("scroll", FALSE, 0, ""))
  /\ UNCHANGED <<scrollDelay, maxScrolls, overlapPixels>>
  /\ ToolFrame

ToolNext ==
  \/ HandleToolCall
  \/ HandleToolNotFound
  \/ ExecuteLong
  \/ ExecuteSingle
  \/ SessionScrolls
  \/ SessionScrollThrows

SpecTool == ToolInit /\ [][ToolNext]_vars

\* C17: a session that has started runs with scrollDelay >= 0,
\* maxScrolls > 0 and overlapPixels > 0, whatever the tool call passed.
C17_SessionConfigValidated ==
  pc = "session"
  => /\ scrollDelay >= 0
     /\ maxScrolls > 0
     /\ overlapPixels > 0

---------------------------------------------------------------------------
(* hashImage on pairs of solid buffers *)

Shades == {"black", "white", "clear"}

\* Byte c of a pixel of a solid buffer: opaque black, white, or all zero.
SolidByte(shade, c) ==
  CASE shade = "black" -> IF c = 3 THEN 255 ELSE 0
    [] shade = "white" -> 255
    [] OTHER           -> 0

\* A width x height RGBA buffer of one shade.
Solid(shade, width, height) ==
  [ width  |-> width,
    height |-> height,
    data   |-> [ n \in 1..(width * height * 4) |->
                   SolidByte(shade, (n - 1) % 4) ] ]

HashWidths == {1, 5, 6}

HashHeights == {1, 5, 10}

SolidFrames ==
  { Solid(s, w, h) : s \in Shades, w \in HashWidths, h \in HashHeights }

\* What the calls of hashImage leave alone.
HashFrame ==
  UNCHANGED <<files, instance, calls, heap,
              maxScrolls, overlapPixels, screenshots, unchangedCount, i,
              capture, platform, scene, tops, params, scrollDelay, server>>

HashInit ==
  /\ pc = "hash"
  /\ \E a \in SolidFrames, b \in SolidFrames : screenshots = <<a, b>>
  /\ previousHash = ""
  /\ result = NoResult
  /\ log = <<>>
  /\ maxScrolls = 0
  /\ overlapPixels = 50
  /\ unchangedCount = 0
  /\ i = 0
  /\ capture = NoFrame
  /\ platform = "win32"
  /\ scene = [kind |-> "uniform", width |-> 1, height |-> 1,
              page |-> 1, pos |-> 0]
  /\ tops = <<>>
  /\ params = NoParams
  /\ scrollDelay = 500
  /\ server = NoServer
  /\ heap = 1
  /\ files = NoFiles
  /\ instance = null
  /\ calls = <<>>

\* previousHash = hashImage(first buffer), when the call returns.
HashFirst ==
  /\ pc = "hash"
  /\ \E h \in {hashImage(screenshots[1])} :
       /\ h # NeverReturns
       /\ previousHash' = h
       /\ log' = Append(log, Event("hash", TRUE, 1, h))
  /\ pc' = "hash2"
  /\ UNCHANGED result
  /\ HashFrame

\* currentHash = hashImage(second buffer), when the call returns.
HashSecond ==
  /\ pc = "hash2"
  /\ \E h \in {hashImage(screenshots[2])} :
       /\ h # NeverReturns
       /\ result' = [status |-> "ok", hash |-> h]
       /\ log' = Append(log, Event("hash", TRUE, 2, h))
  /\ pc' = "hashed"
  /\ UNCHANGED previousHash
  /\ HashFrame

\* The loop of hashImage does not end for the buffer it was given.
HashSpins ==
  /\ pc \in {"hash", "hash2"}
  /\ hashImage(screenshots[IF pc = "hash" THEN 1 ELSE 2]) = NeverReturns
  /\ pc' = "spinning"
  /\ UNCHANGED <<previousHash, result, log>>
  /\ HashFrame

HashNext ==
  \/ HashFirst
  \/ HashSecond
  \/ HashSpins

SpecHash == HashInit /\ [][HashNext]_vars

\* The two buffers are bit-identical.
BitIdentical == screenshots[1].data = screenshots[2].data

\* One buffer is all black and the other all white, of the same dimensions.
BlackAndWhite ==
  /\ screenshots[1].width = screenshots[2].width
  /\ screenshots[1].height = screenshots[2].height
  /\ \E a, b \in 1..2 :
       /\ screenshots[a] = Solid("black", screenshots[a].width,
                                 screenshots[a].height)
       /\ screenshots[b] = Solid("white", screenshots[b].width,
                                 screenshots[b].height)

\* Both calls returned, and the fingerprints are equal for bit-identical
\* buffers and different for black against white.
FingerprintsTellContent ==
  pc = "hashed"
  => /\ BitIdentical => previousHash = result.hash
     /\ BlackAndWhite => previousHash # result.hash

\* C18: bit-identical buffers get equal fingerprints, and an all-black and
\* an all-white buffer of the same dimensions get different fingerprints;
\* in both cases the buffers do get fingerprints.
C18_FingerprintOfContent ==
  /\ FingerprintsTellContent
  /\ (BitIdentical \/ BlackAndWhite) => pc # "spinning"

---------------------------------------------------------------------------
(* Two calls of stitchImages on the same arguments *)

---------------------------------------------------------------------------
(* capture_and_save: the existence check and the write *)

\* The number of capture_and_save calls in flight.
MaxCalls == 2

\* What a capture_and_save call leaves alone.
SaveFrame ==
  UNCHANGED <<pc, instance, heap, maxScrolls, overlapPixels, screenshots,
              previousHash, unchangedCount, i, capture, result, platform,
              scene, tops, params, scrollDelay, server>>

\* What call c writes: the PNG of its own capture.
PngOf(c) == IF c = 1 THEN "png1" ELSE IF c = 2 THEN "png2" ELSE "png3"

\* Each call has its filePath and params.overwrite ?? false, and stands
\* before its fs.access; a path holds an older file or none.
SaveInit ==
  /\ pc = "saving"
  /\ calls \in [1..MaxCalls -> [ filePath  : Paths,
                                 overwrite : BOOLEAN,
                                 at        : {"access"} ]]
  /\ files \in [Paths -> {ENOENT, "old"}]
  /\ log = <<>>
  /\ instance = null
  /\ heap = 1
  /\ maxScrolls = 0
  /\ overlapPixels = 50
  /\ screenshots = <<>>
  /\ previousHash = ""
  /\ unchangedCount = 0
  /\ i = 0
  /\ capture = NoFrame
  /\ result = NoResult
  /\ platform = "win32"
  /\ scene = [kind |-> "uniform", width |-> 1, height |-> 1,
              page |-> 1, pos |-> 0]
  /\ tops = <<>>
  /\ params = NoParams
  /\ scrollDelay = 500
  /\ server = NoServer

\* await fs.access(filePath) resolves and overwrite is false: the call
\* throws 'File already exists'.
AccessRefuses(c) ==
  /\ calls[c].at = "access"
  /\ files[calls[c].filePath] # ENOENT
  /\ ~calls[c].overwrite
  /\ calls' = [calls EXCEPT ![c].at = "File already exists"]
  /\ log' = Append(log, Event("access", FALSE, c, files[calls[c].filePath]))
  /\ UNCHANGED files
  /\ SaveFrame

\* await fs.access(filePath) rejects with ENOENT, or resolves with
\* overwrite true: the call goes on to capture.
AccessPasses(c) ==
  /\ calls[c].at = "access"
  /\ files[calls[c].filePath] = ENOENT \/ calls[c].overwrite
  /\ calls' = [calls EXCEPT ![c].at = "capture"]
  /\ log' = Append(log, Event("access", TRUE, c, files[calls[c].filePath]))
  /\ UNCHANGED files
  /\ SaveFrame

\* The awaited capture returns; the directory is made.
SaveCaptures(c) ==
  /\ calls[c].at = "capture"
  /\ calls' = [calls EXCEPT ![c].at = "write"]
  /\ log' = Append(log, Event("capture", TRUE, c, ""))
  /\ UNCHANGED files
  /\ SaveFrame

\* await fs.writeFile(filePath, pngBuffer): the path holds the PNG, whatever
\* it held; the event keeps what it held.
WriteFile(c) ==
  /\ calls[c].at = "write"
  /\ files' = [files EXCEPT ![calls[c].filePath] = PngOf(c)]
  /\ calls' = [calls EXCEPT ![c].at = "saved"]
  /\ log' = Append(log, Event("write", TRUE, c, files[calls[c].filePath]))
  /\ SaveFrame

SaveNext ==
  \E c \in 1..MaxCalls :
    \/ AccessRefuses(c)
    \/ AccessPasses(c)
    \/ SaveCaptures(c)
    \/ WriteFile(c)

SpecSave == SaveInit /\ [][SaveNext]_vars

\* C21: a call without overwrite never writes to a path that holds a file
\* at the moment of the write.
C21_NeverReplacesWithoutOverwrite ==
  \A k \in 1..Len(log) :
    (log[k].op = "write" /\ ~calls[log[k].n].overwrite)
    => log[k].fp = ENOENT

---------------------------------------------------------------------------
(* PlatformFactory.getPlatform and reset *)

\* What the factory leaves alone.
FactoryFrame ==
  UNCHANGED <<pc, files, heap, maxScrolls, overlapPixels, screenshots,
              previousHash, unchangedCount, i, capture, result, platform,
              scene, tops, params, scrollDelay, server>>

\* The implementations created so far; each new one is another object.
Created == Len(SelectSeq(log, LAMBDA e : e.op = "new"))

\* detectPlatform() returns UNKNOWN for any other process.platform.
FactoryPlatforms == Platforms \cup {"freebsd"}

FactoryInit ==
  /\ pc = "factory"
  /\ platform \in FactoryPlatforms
  /\ instance = null
  /\ calls = [c \in 1..MaxCalls |-> [at |-> "idle"]]
  /\ log = <<>>
  /\ files = NoFiles
  /\ heap = 1
  /\ maxScrolls = 0
  /\ overlapPixels = 50
  /\ screenshots = <<>>
  /\ previousHash = ""
  /\ unchangedCount = 0
  /\ i = 0
  /\ capture = NoFrame
  /\ result = NoResult
  /\ scene = [kind |-> "uniform", width |-> 1, height |-> 1,
              page |-> 1, pos |-> 0]
  /\ tops = <<>>
  /\ params = NoParams
  /\ scrollDelay = 500
  /\ server = NoServer

\* if (this.instance !== null) return this.instance
GetPlatformCached(c) ==
  /\ calls[c].at = "idle"
  /\ instance # null
  /\ calls' = [calls EXCEPT ![c].at = "returned"]
  /\ log' = Append(log, Event("return", TRUE, instance, ""))
  /\ UNCHANGED instance
  /\ FactoryFrame

\* No instance is cached and the platform is one of the three: the call
\* awaits the import of the implementation.
GetPlatformLoads(c) ==
  /\ calls[c].at = "idle"
  /\ instance = null
  /\ platform \in Platforms
  /\ calls' = [calls EXCEPT ![c].at = "import"]
  /\ log' = Append(log, Event("import", TRUE, c, ""))
  /\ UNCHANGED instance
  /\ FactoryFrame

\* No instance is cached and the platform is unknown: PlatformError.
GetPlatformThrows(c) ==
  /\ calls[c].at = "idle"
  /\ instance = null
  /\ platform \notin Platforms
  /\ calls' = [calls EXCEPT ![c].at = "PLATFORM_NOT_SUPPORTED"]
  /\ log' = Append(log, Event("throw", FALSE, c, ""))
  /\ UNCHANGED instance
  /\ FactoryFrame

\* The import resolves: this.instance = new ...Platform(); return
\* this.instance.
ImportResolves(c) ==
  /\ calls[c].at = "import"
  /\ instance' = Created + 1
  /\ calls' = [calls EXCEPT ![c].at = "returned"]
  /\ log' = log \o << Event("new", TRUE, Created + 1, ""),
                      Event("return", TRUE, Created + 1, "") >>
  /\ FactoryFrame

\* The import rejects: PlatformError 'Failed to load'.
ImportRejects(c) ==
  /\ calls[c].at = "import"
  /\ calls' = [calls EXCEPT ![c].at = "PLATFORM_NOT_SUPPORTED"]
  /\ log' = Append(log, Event("throw", FALSE, c, ""))
  /\ UNCHANGED instance
  /\ FactoryFrame

\* PlatformFactory.reset(), at most once here.
Reset ==
  /\ \A k \in 1..Len(log) : log[k].op # "reset"
  /\ instance' = null
  /\ log' = Append(log, Event("reset", TRUE, 0, ""))
  /\ UNCHANGED calls
  /\ FactoryFrame

FactoryNext ==
  \/ \E c \in 1..MaxCalls :
       \/ GetPlatformCached(c)
       \/ GetPlatformLoads(c)
       \/ GetPlatformThrows(c)
       \/ ImportResolves(c)
       \/ ImportRejects(c)
  \/ Reset

SpecFactory == FactoryInit /\ [][FactoryNext]_vars

\* C22: between two resets every implementation created and every
\* instance returned is the same one.
C22_OneInstanceBetweenResets ==
  \A j \in 1..Len(log) :
    \A k \in (j + 1)..Len(log) :
      ( /\ log[j].op \in {"new", "return"}
        /\ log[k].op \in {"new", "return"}
        /\ \A r \in j..k : log[r].op # "reset" )
      => log[j].n = log[k].n

---------------------------------------------------------------------------
(* Which captures the loop retains, under Spec *)

\* The frame a capture at scroll position pos returned.
FrameAt(pos) == Window(scene.kind, pos, scene.width, scene.height)

\* The captures among the first n fingerprinted ones whose number is in
\* keep, as frames, in capture order.
RECURSIVE Kept(_, _)
Kept(n, keep) ==
  IF n = 0 THEN <<>>
  ELSE IF n \in keep
       THEN Append(Kept(n - 1, keep), FrameAt(CapturesDone[n].n))
       ELSE Kept(n - 1, keep)

\* Fingerprint k brings the unchanged streak to 2.
SecondUnchanged(k) == Unchanged(k) /\ Unchanged(k - 1)

\* C23 as stated: the retained frames are all the fingerprinted captures
\* but those that bring the unchanged streak to 2.
C23_AppendedUnlessSecondUnchanged ==
  pc # "start"
  => screenshots =
       Kept(Len(Fingerprints),
            {k \in 1..Len(Fingerprints) : ~SecondUnchanged(k)})

\* C23, amended: the retained frames are exactly the seed and the captures
\* whose fingerprint differs from the previous capture's; a capture with an
\* unchanged fingerprint is left out, whether it brings the streak to 1 or
\* to 2.
C23_AppendedIffChanged ==
  pc # "start"
  => screenshots =
       Kept(Len(Fingerprints),
            {k \in 1..Len(Fingerprints) : ~Unchanged(k)})

\* An unchanged capture brought the streak to 1 and was left out, and the
\* next capture, a changed one, was appended.
C23_Witness ==
  /\ Len(Fingerprints) >= 3
  /\ Unchanged(2)
  /\ ~Unchanged(3)
  /\ Len(screenshots) = 2
  /\ pc = "loop"

---------------------------------------------------------------------------
(* The order of the operations of a session, under Spec *)

\* The operation logged before event k, or "none" for the first.
Before(k) == IF k = 1 THEN "none" ELSE log[k - 1].op

\* Event k is where its operation belongs: the seed capture first, a
\* fingerprint after a returned capture, a scroll after a fingerprint, a
\* wait after a scroll call that returned, a capture after a wait, the
\* stitch after a fingerprint.
InOrder(k) ==
  CASE log[k].op = "capture" -> Before(k) \in {"none", "wait"}
    [] log[k].op = "hash"    -> Before(k) = "capture" /\ log[k - 1].ok
    [] log[k].op = "scroll"  -> Before(k) = "hash"
    [] log[k].op = "wait"    -> Before(k) = "scroll"
    [] log[k].op = "stitch"  -> Before(k) = "hash"
    [] OTHER                 -> FALSE

\* C24: the log of a session is capture, fingerprint, then scroll, wait,
\* capture, fingerprint in turn: one scroll call and one wait between two
\* consecutive captures, no scroll before the previous capture is
\* fingerprinted, nothing after a capture that failed, and at most
\* maxScrolls scroll calls.
C24_OperationsAlternate ==
  /\ \A k \in 1..Len(log) : InOrder(k)
  /\ \A k \in 1..(Len(log) - 1) : log[k].op = "capture" => log[k].ok
  /\ Len(ScrollsDone) <= Max(maxScrolls, 0)

\* A session that ended after three iterations, one of them with a scroll
\* gesture that failed.
C24_Witness ==
  /\ pc = "done"
  /\ Len(CapturesDone) = 4
  /\ \E k \in 1..Len(log) : log[k].op = "scroll" /\ ~log[k].ok

---------------------------------------------------------------------------
(* The candidate findBestOverlap returns, under SpecFn *)

\* The average of s is at most the average of t; no average is NaN here.
AtMost(s, t) ==
  /\ s.sum # NaN
  /\ t.sum # NaN
  /\ s.sum * t.samples <= t.sum * s.samples

\* The value returned is a candidate of the range, no candidate has a lower
\* average distance, and no smaller candidate has the same one.
ReturnsFirstMinimum ==
  /\ (Q * result.overlap) \in Scored(Prior, Following, overlapPixels)
  /\ \A o \in Scored(Prior, Following, overlapPixels) :
       \E s \in {Score(Prior, Following, o)} :
         /\ AtMost(result.bestScore, s)
         /\ AtMost(s, result.bestScore) => Q * result.overlap <= o

\* C25: when the range has candidates, the value returned is the candidate
\* with the minimum average distance, the smallest of them on a tie.
C25_ReturnsFirstMinimum ==
  (pc = "resolved" /\ Scored(Prior, Following, overlapPixels) # {})
  => ReturnsFirstMinimum

\* The same for the ranges whose candidates are whole numbers of rows.
ReturnsFirstMinimumOfWholeCandidates ==
  ( /\ pc = "resolved"
    /\ Scored(Prior, Following, overlapPixels) # {}
    /\ minOverlap(overlapPixels) % Q = 0 )
  => ReturnsFirstMinimum

---------------------------------------------------------------------------
(* Termination of hashImage, under SpecHash *)

\* The number of bytes a fingerprint was made of: two hex digits each.
Sampled(hash) == Len(hash) \div 2

\* C26: hashImage returns for every buffer of one byte or more, and the
\* fingerprint it returns is made of 100 to 199 sampled bytes.
C26_FingerprintTerminates ==
  /\ pc # "spinning"
  /\ pc \in {"hash2", "hashed"} => Sampled(previousHash) \in 100..199
  /\ pc = "hashed" => Sampled(result.hash) \in 100..199

---------------------------------------------------------------------------
(* The scroll amount of a tool call, under SpecTool *)

\* Math.ceil(amount / 100)
RepeatCount(amount) == (amount + 99) \div 100

\* C27: on darwin, a session whose tool call gave scrollAmount presses the
\* scroll key Math.ceil(scrollAmount / 100) times in its scroll call.
C27_AmountGivesRepeatCount ==
  ( /\ pc = "scrolled"
    /\ platform = "darwin"
    /\ params.scrollAmount # undefined )
  => log[Len(log)].n = RepeatCount(params.scrollAmount)

---------------------------------------------------------------------------
(* One comparison of the loop, on a capture that differs from the previous
   one at chosen byte offsets *)

\* The offsets of the buffer that hashImage does not read.
Unsampled(image) ==
  {d \in 0..(Len(image.data) - 1) : d % hashStep(image) # 0}

\* The frame with the bytes at the offsets of D changed.
Altered(image, D) ==
  [image EXCEPT !.data = [n \in DOMAIN @ |->
                            IF (n - 1) \in D THEN (@[n] + 1) % 256
                            ELSE @[n]]]

\* The sets of offsets at which the new capture differs: one offset near
\* the start or the end of the buffer, or every unsampled offset.
Differences(image) ==
  {{d} : d \in (0..5 \cup {Len(image.data) - 2, Len(image.data) - 1})}
  \cup {Unsampled(image)}

\* The frames of a session whose fingerprints return: 100 bytes or more.
ComparedFrames == {f \in SolidFrames : hashStep(f) > 0}

\* The loop stands before the comparison of a capture with the previous
\* one, which is the retained frame; the streak is 0 after the seed, or 1
\* after an iteration whose capture was unchanged.
CompareInit ==
  /\ pc = "compare"
  /\ \E prev \in ComparedFrames :
       \E D \in Differences(prev) :
         /\ D # {}
         /\ screenshots = <<prev>>
         /\ previousHash = hashImage(prev)
         /\ capture = Altered(prev, D)
         /\ scene = [kind |-> "uniform", width |-> prev.width,
                     height |-> prev.height, page |-> 0, pos |-> 0]
         /\ unchangedCount \in {0, 1}
         /\ i = unchangedCount
         /\ log =
              (IF unchangedCount = 1
               THEN << Event("capture", TRUE, 0, ""),
                       Event("hash", TRUE, 0, previousHash),
                       Event("scroll", TRUE, 1, ""),
                       Event("wait", TRUE, 0, "") >>
               ELSE <<>>)
              \o << Event("capture", TRUE, 0, ""),
                    Event("hash", TRUE, 0, previousHash),
                    Event("scroll", TRUE, 1, ""),
                    Event("wait", TRUE, 0, ""),
                    Event("capture", TRUE, 0, "") >>
  /\ tops = <<0>>
  /\ maxScrolls = MaxScrollsBound
  /\ overlapPixels = 50
  /\ platform = "win32"
  /\ result = NoResult
  /\ params = NoParams
  /\ scrollDelay = 500
  /\ server = NoServer
  /\ heap = 1
  /\ files = NoFiles
  /\ instance = null
  /\ calls = <<>>

SpecCompare == CompareInit /\ [][Compare]_vars

\* The byte offsets at which the capture differs from the retained frame.
Differing ==
  {d \in 0..(Len(capture.data) - 1) :
     capture.data[d + 1] # screenshots[1].data[d + 1]}

\* C28: a capture that differs from the previous one only at offsets the
\* fingerprint does not sample is treated as unchanged: it is not appended
\* and the streak grows by one, ending the loop at 2; a capture that
\* differs at a sampled offset is appended and the streak is 0.
C28_DecisionBySampledBytes ==
  pc \in {"loop", "stitch"}
  => IF Differing \subseteq Unsampled(capture)
     THEN /\ Len(screenshots) = 1
          /\ unchangedCount = IF pc = "stitch" THEN i + 1 ELSE i
          /\ unchangedCount \in {1, 2}
          /\ unchangedCount = 2 <=> pc = "stitch"
     ELSE /\ screenshots = <<screenshots[1], capture>>
          /\ unchangedCount = 0

\* A capture that differs at every unsampled offset was left out and ended
\* the loop.
C28_Witness ==
  /\ pc = "stitch"
  /\ unchangedCount = 2
  /\ Len(screenshots) = 1
  /\ Differing = Unsampled(capture)
  /\ Differing # {}

---------------------------------------------------------------------------
(* The stored fingerprint and the retained frames, under Spec *)

\* The fingerprinted captures that differed from the capture before them.
ChangedIterations == {k \in 2..Len(Fingerprints) : ~Unchanged(k)}

\* C29: at the start of every iteration previousHash is the fingerprint of
\* the last retained frame; once the loop has ended no two adjacent
\* retained frames have equal fingerprints; and the number of retained
\* frames is 1 plus the number of changed captures.
C29_PreviousHashIsLastFrames ==
  /\ pc \in {"loop", "scroll"}
     => previousHash = hashImage(screenshots[Len(screenshots)])
  /\ pc \in {"stitch", "done"}
     => \A k \in 1..(Len(screenshots) - 1) :
          hashImage(screenshots[k]) # hashImage(screenshots[k + 1])
  /\ pc \notin {"start", "failed"}
     => Len(screenshots) = 1 + Cardinality(ChangedIterations)

\* The loop has ended with three retained frames after an unchanged
\* capture between changed ones.
C29_Witness ==
  /\ pc = "stitch"
  /\ Len(screenshots) = 3
  /\ \E k \in 2..(Len(Fingerprints) - 1) : Unchanged(k) /\ ~Unchanged(k + 1)

---------------------------------------------------------------------------
(* The copies of the stitch that ends a session, under Spec *)

\* The session has run stitchImages on the frames it retained.
SessionStitched == Len(log) > 0 /\ log[Len(log)].op = "stitch"

\* Copy k of the result starts at a row of the output, has a length of zero
\* or more, and ends inside frame k + 1 and inside the output.
CopyInside(k) ==
  LET c == result.copies[k]
  IN  /\ c.destStart >= 0
      /\ c.copyLength >= 0
      /\ c.sourceStart >= 0
      /\ c.sourceStart + c.copyLength <= Len(screenshots[k + 1].data)
      /\ c.destStart + c.copyLength <= Len(result.image.data)

\* C30: the stitch of a session returns a buffer, every copy it made is
\* inside its source frame and the output, one copy was made for every
\* frame after the first, and the output is at least as high as the seed.
C30_SessionStitchStaysInside ==
  SessionStitched
  => /\ result.status = "ok"
     /\ Len(result.copies) = Len(screenshots) - 1
     /\ \A k \in 1..Len(result.copies) : CopyInside(k)
     /\ result.image.height >= screenshots[1].height

====
